---- MODULE Spec2Model ----
(***************************************************************************)
(* Model of the msw fixture store (updateFixture / readFixture) and of the *)
(* requiredParam / requiredHeader / requiredProperty helpers.              *)
(*                                                                         *)
(* Every asynchronous function is cut at its awaits: one action is the     *)
(* synchronous run of code between two awaits on the event loop.           *)
(* fs.promises.writeFile is open(O_TRUNC) followed by write(): two steps   *)
(* on the thread pool, between which other tasks run. fs.promises.readFile *)
(* is taken to see the file at one instant.                                *)
(***************************************************************************)
EXTENDS Integers, Sequences, FiniteSets, TLC

\* ---------------------------------------------------------------- bounds
\* The general specification: overlapping updateFixture calls, plain
\* readFixture calls and I/O failures.
NumUpdaters == 3
NumReaders == 1
MaxFailures == 1
\* The queue specification: updateFixture calls only, no I/O failure.
QueueUpdaters == 4
\* The two-call specification.
PairUpdaters == 2

Max(m, n) == IF m > n THEN m ELSE n
MaxUpdaters == Max(Max(QueueUpdaters, NumUpdaters), PairUpdaters)
Updaters == 1..MaxUpdaters
Readers == (MaxUpdaters + 1)..(MaxUpdaters + NumReaders)
Procs == Updaters \cup Readers

\* ------------------------------------------------------------- documents
\* A JSON document over the keys of the model: 0 marks an absent key.
Keys == {"a", "b"}
Absent == 0
EmptyDoc == [k \in Keys |-> Absent]
\* The patches callers pass to updateFixture: {a:1}, {a:2}, {b:2}.
Patches ==
  { [k \in Keys |-> IF k = "a" THEN 1 ELSE Absent],
    [k \in Keys |-> IF k = "a" THEN 2 ELSE Absent],
    [k \in Keys |-> IF k = "b" THEN 2 ELSE Absent] }

\* { ...mswData, ...updates }: shallow overwrite, key by key.
WriteOnlyUpdates(mswData, updates) == updates
Merge(mswData, updates) ==
  [k \in Keys |-> IF updates[k] # Absent THEN updates[k] ELSE mswData[k]]

NumKeys(doc) == Cardinality({k \in Keys : doc[k] # Absent})
\* Length of JSON.stringify(doc, null, 2) for one-character keys and values:
\* "{}" for the empty document, else "{\n" + lines of `  "k": v` joined by
\* ",\n" + "\n}".
StringifyLen(doc) == IF NumKeys(doc) = 0 THEN 2 ELSE 10 * NumKeys(doc) + 2

\* File contents: valid says whether JSON.parse accepts them (it rejects a
\* missing file, the empty file a truncation leaves, and the bytes of two
\* writes mixed); data is the document it returns; len is the byte length.
Truncated == [valid |-> FALSE, data |-> EmptyDoc, len |-> 0]
\* write() of the whole buffer at offset 0 of a descriptor: bytes beyond the
\* buffer that another descriptor wrote in the meantime stay in the file.
WriteBytes(f, doc) ==
  IF StringifyLen(doc) >= f.len
    THEN [valid |-> TRUE, data |-> doc, len |-> StringifyLen(doc)]
    ELSE [valid |-> FALSE, data |-> EmptyDoc, len |-> f.len]

\* ---------------------------------------------------------------- errors
NoErr == <<"none", 0>>
IOErr(p) == <<"io", p>>          \* the I/O error of an operation issued by p
TypeErr(p) == <<"TypeError", p>> \* null dereference of `updating` in p
ClearErr == <<"io", 0>>          \* rejection of clearingFixture

VARIABLES
  clearingFixture, \* "pending" | "fulfilled" | "rejected"
  file,            \* contents of msw.local.json
  updating,        \* 0 (null) or the caller whose deferred is in the slot
  token,           \* state of the deferred each caller created
  tokenErr,        \* rejection reason of each deferred
  pc,              \* where each call stands
  updates,         \* argument of each updateFixture call
  mswData,         \* readFixture's local
  waitOn,          \* the deferred a caller awaits at its first line (0: none)
  result,          \* state of the promise each call returned
  err,             \* rejection reason of that promise
  ret,             \* value readFixture returned to a plain reader
  h,               \* history, never read by the program
  lim,             \* what the environment does at most: calls and failures
  req              \* the last call of a required* helper and its outcome

vars == <<clearingFixture, file, updating, token, tokenErr, pc, updates,
          mswData, waitOn, result, err, ret, h, lim, req>>

InCycle(p) ==
  pc[p] \in {"clearing", "reading", "recOpen", "recWrite", "wrOpen", "wrWrite"}

NoCall == [fn |-> "none", key |-> "", threw |-> FALSE]
InitWith(nUpdaters, nReaders, nFailures) ==
  /\ req = NoCall
  /\ lim = [updaters |-> nUpdaters, readers |-> nReaders, failures |-> nFailures]
  /\ clearingFixture = "pending"
  /\ file = Truncated
  /\ updating = 0
  /\ token = [p \in Updaters |-> "none"]
  /\ tokenErr = [p \in Updaters |-> NoErr]
  /\ pc = [p \in Procs |-> "idle"]
  /\ updates = [p \in Updaters |-> EmptyDoc]
  /\ mswData = [p \in Procs |-> EmptyDoc]
  /\ waitOn = [p \in Updaters |-> 0]
  /\ result = [p \in Procs |-> "none"]
  /\ err = [p \in Procs |-> NoErr]
  /\ ret = [p \in Readers |-> EmptyDoc]
  /\ h = [ ioFailures |-> 0,
           order |-> <<>>,                        \* callers, by start of cycle
           wrote |-> [p \in Updaters |-> FALSE],  \* own writeFile completed
           ownErr |-> [p \in Procs |-> NoErr],    \* what the call's own I/O threw
           readFail |-> [p \in Procs |-> FALSE],  \* readFile or JSON.parse threw
           retFile |-> [p \in Readers |-> Truncated], \* file when readFixture returned
           committed |-> EmptyDoc,                \* last document written completely
           window |-> [p \in Readers |-> {}],     \* documents committed during a read
           readerWrote |-> [p \in Readers |-> FALSE] ]


\* ------------------------------------------------------- history helpers
Active(r) == pc[r] \notin {"idle", "done"}
\* History after the file changed to f.
Seen(hist, f) ==
  IF ~f.valid THEN hist
  ELSE [hist EXCEPT !.committed = f.data,
                    !.window = [r \in Readers |->
                                  IF Active(r) THEN @[r] \cup {f.data} ELSE @[r]]]
Failed(hist) == [hist EXCEPT !.ioFailures = @ + 1]
MayFail == h.ioFailures < lim.failures

\* ------------------------------------------------- updateFixture, tail
\* The callers suspended at line 40 on the deferred of caller t.
Waiters(t) == {q \in Updaters : pc[q] = "waiting" /\ waitOn[q] = t}
RECURSIVE InCallOrder(_)
\* Promise reactions run in the order the awaits registered them, which is
\* the order of the calls.
InCallOrder(S) ==
  IF S = {} THEN <<>>
  ELSE LET q == CHOOSE x \in S : \A y \in S : x <= y
       IN <<q>> \o InCallOrder(S \ {q})

\* Lines 50-55 run in one piece: resolve (or, from the catch, reject) whatever
\* deferred is in `updating` now, then clear the slot. With the slot already
\* null the dereference throws a TypeError, in the try and again in the
\* catch, and the call rejects with it after the finally. The callers
\* awaiting the deferred continue as microtasks before any other task: on
\* resolve they enter the try and readFixture, up to its first await, leaving
\* `updating` as it is; on reject their await throws outside the try.
Settle(p, e, hist) ==
  /\ updating' = 0
  /\ IF updating = 0
       THEN /\ pc' = [pc EXCEPT ![p] = "done"]
            /\ result' = [result EXCEPT ![p] = "rejected"]
            /\ err' = [err EXCEPT ![p] = TypeErr(p)]
            /\ h' = hist
            /\ UNCHANGED <<token, tokenErr>>
       ELSE LET woken == Waiters(updating) IN
            /\ token' = [token EXCEPT ![updating] =
                           IF e = NoErr THEN "resolved" ELSE "rejected"]
            /\ tokenErr' = [tokenErr EXCEPT ![updating] = e]
            /\ pc' = [q \in Procs |->
                        IF q = p THEN "done"
                        ELSE IF q \in woken
                          THEN (IF e = NoErr THEN "clearing" ELSE "done")
                          ELSE pc[q]]
            /\ result' = [q \in Procs |->
                            IF q = p THEN "fulfilled"
                            ELSE IF q \in woken /\ e # NoErr THEN "rejected"
                            ELSE result[q]]
            /\ err' = [q \in Procs |->
                         IF q \in woken /\ e # NoErr THEN e ELSE err[q]]
            /\ h' = IF e = NoErr
                      THEN [hist EXCEPT !.order = @ \o InCallOrder(woken)]
                      ELSE hist

\* readFixture returns doc: a plain reader gets it; updateFixture goes on to
\* writeFile (line 46), whose open is then in flight.
ReadReturn(p, doc) ==
  IF p \in Readers
    THEN /\ pc' = [pc EXCEPT ![p] = "done"]
         /\ result' = [result EXCEPT ![p] = "fulfilled"]
         /\ ret' = [ret EXCEPT ![p] = doc]
         /\ mswData' = [mswData EXCEPT ![p] = doc]
         /\ UNCHANGED <<updating, token, tokenErr, err>>
    ELSE /\ pc' = [pc EXCEPT ![p] = "wrOpen"]
         /\ mswData' = [mswData EXCEPT ![p] = doc]
         /\ UNCHANGED <<updating, token, tokenErr, result, err, ret>>

\* readFixture throws e: a plain reader's promise rejects; in updateFixture
\* the catch at line 51 takes it.
ReadThrow(p, e, hist) ==
  IF p \in Readers
    THEN /\ pc' = [pc EXCEPT ![p] = "done"]
         /\ result' = [result EXCEPT ![p] = "rejected"]
         /\ err' = [err EXCEPT ![p] = e]
         /\ h' = hist
         /\ UNCHANGED <<updating, token, tokenErr>>
    ELSE Settle(p, e, hist)

\* ---------------------------------------------------------------- actions
\* The module-level writeFile(mswDataPath, '{}') settles.
ClearingSettles ==
  /\ clearingFixture = "pending"
  /\ \E ok \in BOOLEAN :
       IF ok
         THEN /\ clearingFixture' = "fulfilled"
              /\ file' = [valid |-> TRUE, data |-> EmptyDoc, len |-> 2]
              /\ h' = h
         ELSE /\ MayFail
              /\ clearingFixture' = "rejected"
              /\ file' = file
              /\ h' = Failed(h)
  /\ UNCHANGED <<updating, token, tokenErr, pc, updates, mswData, waitOn,
                 result, err, ret, lim, req>>

\* updateFixture(u) is called: lines 38-45 and readFixture up to its first
\* await. Callers are numbered in call order.
CallUpdate(p) ==
  /\ p \in Updaters
  /\ pc[p] = "idle"
  /\ p <= lim.updaters
  /\ \A q \in Updaters : q < p => pc[q] # "idle"
  /\ \E u \in Patches : updates' = [updates EXCEPT ![p] = u]
  /\ IF updating # 0
       THEN /\ waitOn' = [waitOn EXCEPT ![p] = updating]
            /\ pc' = [pc EXCEPT ![p] = "waiting"]
            /\ UNCHANGED <<updating, token, h>>
       ELSE /\ updating' = p
            /\ token' = [token EXCEPT ![p] = "pending"]
            /\ pc' = [pc EXCEPT ![p] = "clearing"]
            /\ h' = [h EXCEPT !.order = Append(@, p)]
            /\ UNCHANGED waitOn
  /\ UNCHANGED <<clearingFixture, file, tokenErr, mswData, result, err, ret, lim, req>>

\* A plain readFixture() call, up to its first await.
CallRead(r) ==
  /\ r \in Readers
  /\ pc[r] = "idle"
  /\ r <= MaxUpdaters + lim.readers
  /\ pc' = [pc EXCEPT ![r] = "clearing"]
  /\ h' = [h EXCEPT !.window = [@ EXCEPT ![r] = {h.committed}]]
  /\ UNCHANGED <<clearingFixture, file, updating, token, tokenErr, updates,
                 mswData, waitOn, result, err, ret, lim, req>>

\* Line 59: await clearingFixture.
AwaitClearing(p) ==
  /\ pc[p] = "clearing"
  /\ clearingFixture # "pending"
  /\ IF clearingFixture = "fulfilled"
       THEN /\ pc' = [pc EXCEPT ![p] = "reading"]
            /\ h' = h
            /\ UNCHANGED <<updating, token, tokenErr, result, err>>
       ELSE ReadThrow(p, ClearErr, [h EXCEPT !.ownErr = [@ EXCEPT ![p] = ClearErr]])
  /\ UNCHANGED <<clearingFixture, file, updates, mswData, waitOn, ret, lim, req>>

\* Lines 62-63: readFile and JSON.parse. On success readFixture returns; on
\* failure the catch starts writeFile(mswDataPath, '{}').
ReadFile(p) ==
  /\ pc[p] = "reading"
  /\ \E ok \in BOOLEAN :
       IF ok /\ file.valid
         THEN /\ ReadReturn(p, file.data)
              /\ h' = IF p \in Readers
                        THEN [h EXCEPT !.retFile = [@ EXCEPT ![p] = file]]
                        ELSE h
         ELSE /\ ok \/ MayFail
              /\ pc' = [pc EXCEPT ![p] = "recOpen"]
              /\ h' = [(IF ok THEN h ELSE Failed(h))
                         EXCEPT !.readFail = [@ EXCEPT ![p] = TRUE]]
              /\ UNCHANGED <<updating, token, tokenErr, mswData, result, err, ret>>
  /\ UNCHANGED <<clearingFixture, file, updates, waitOn, lim, req>>

\* Line 69, first half: open with O_TRUNC.
RecoverOpen(p) ==
  /\ pc[p] = "recOpen"
  /\ \E ok \in BOOLEAN :
       IF ok
         THEN /\ file' = Truncated
              /\ pc' = [pc EXCEPT ![p] = "recWrite"]
              /\ h' = IF p \in Readers
                        THEN [h EXCEPT !.readerWrote = [@ EXCEPT ![p] = TRUE]]
                        ELSE h
              /\ UNCHANGED <<updating, token, tokenErr, result, err>>
         ELSE /\ MayFail
              /\ file' = file
              /\ ReadThrow(p, IOErr(p),
                           [Failed(h) EXCEPT !.ownErr = [@ EXCEPT ![p] = IOErr(p)]])
  /\ UNCHANGED <<clearingFixture, updates, mswData, waitOn, ret, lim, req>>

\* Line 69, second half: write "{}"; then readFixture returns {}.
RecoverWrite(p) ==
  /\ pc[p] = "recWrite"
  /\ \E ok \in BOOLEAN :
       IF ok
         THEN LET f == WriteBytes(file, EmptyDoc) IN
              /\ file' = f
              /\ ReadReturn(p, EmptyDoc)
              /\ h' = IF p \in Readers
                        THEN [Seen(h, f) EXCEPT !.retFile = [@ EXCEPT ![p] = f]]
                        ELSE Seen(h, f)
         ELSE /\ MayFail
              /\ file' = file
              /\ ReadThrow(p, IOErr(p),
                           [Failed(h) EXCEPT !.ownErr = [@ EXCEPT ![p] = IOErr(p)]])
              /\ UNCHANGED <<mswData, ret>>
  /\ UNCHANGED <<clearingFixture, updates, waitOn, lim, req>>

\* Line 46, first half: open with O_TRUNC.
WriteOpen(p) ==
  /\ p \in Updaters
  /\ pc[p] = "wrOpen"
  /\ \E ok \in BOOLEAN :
       IF ok
         THEN /\ file' = Truncated
              /\ pc' = [pc EXCEPT ![p] = "wrWrite"]
              /\ h' = h
              /\ UNCHANGED <<updating, token, tokenErr, result, err>>
         ELSE /\ MayFail
              /\ file' = file
              /\ Settle(p, IOErr(p),
                        [Failed(h) EXCEPT !.ownErr = [@ EXCEPT ![p] = IOErr(p)]])
  /\ UNCHANGED <<clearingFixture, updates, mswData, waitOn, ret, lim, req>>

\* Line 46, second half: write the merged document; then lines 50-55.
WriteData(p) ==
  /\ p \in Updaters
  /\ pc[p] = "wrWrite"
  /\ \E ok \in BOOLEAN :
       IF ok
         THEN LET f == WriteBytes(file, Merge(mswData[p], updates[p])) IN
              /\ file' = f
              /\ Settle(p, NoErr, [Seen(h, f) EXCEPT !.wrote = [@ EXCEPT ![p] = TRUE]])
         ELSE /\ MayFail
              /\ file' = file
              /\ Settle(p, IOErr(p),
                        [Failed(h) EXCEPT !.ownErr = [@ EXCEPT ![p] = IOErr(p)]])
  /\ UNCHANGED <<clearingFixture, updates, mswData, waitOn, ret, lim, req>>

Next ==
  \/ ClearingSettles
  \/ \E p \in Updaters : CallUpdate(p)
  \/ \E r \in Readers : CallRead(r)
  \/ \E p \in Procs : AwaitClearing(p)
  \/ \E p \in Procs : ReadFile(p)
  \/ \E p \in Procs : RecoverOpen(p)
  \/ \E p \in Procs : RecoverWrite(p)
  \/ \E p \in Updaters : WriteOpen(p)
  \/ \E p \in Updaters : WriteData(p)

Init == InitWith(NumUpdaters, NumReaders, MaxFailures)
Spec == Init /\ [][Next]_vars

\* ------------------------------------------------------ required* helpers
\* Strings are sequences of characters.
EmptyStr == <<>>
StrX == <<"x">>
Values == {EmptyStr, StrX}
Null == <<"null">>    \* what get() returns for a missing name; no string
\* ToBoolean of what URLSearchParams.get and Headers.get return.
TruthyStr(v) == v # Null /\ v # EmptyStr

MaxEntries == 2
ParamNames == {"id", "q"}
\* A URLSearchParams: the list of its name/value pairs.
ParamLists ==
  UNION {[1..n -> [name : ParamNames, value : Values]] : n \in 0..MaxEntries}
\* URLSearchParams.get: the value of the first pair with the name, or null.
ParamsGet(params, name) ==
  LET hits == {i \in 1..Len(params) : params[i].name = name} IN
  IF hits = {} THEN Null
  ELSE params[CHOOSE i \in hits : \A j \in hits : i <= j].value

\* Header names as callers write them; Headers compares them in lower case.
HeaderNames == {"accept", "Accept", "etag"}
Lower(name) == IF name = "Accept" THEN "accept" ELSE name
HeaderLists ==
  UNION {[1..n -> [name : HeaderNames, value : Values]] : n \in 0..MaxEntries}
RECURSIVE JoinValues(_, _)
\* The values of the pairs named `name`, in order, joined by ", ".
JoinValues(headers, name) ==
  IF headers = <<>> THEN <<>>
  ELSE LET n == Len(headers)
           front == SubSeq(headers, 1, n - 1)
           has == \E i \in 1..(n - 1) : Lower(front[i].name) = Lower(name)
       IN IF Lower(headers[n].name) # Lower(name) THEN JoinValues(front, name)
          ELSE IF has THEN JoinValues(front, name) \o <<",", " ">> \o headers[n].value
          ELSE headers[n].value
\* Headers.get: the combined value of the name, or null.
HeadersGet(headers, name) ==
  IF \E i \in 1..Len(headers) : Lower(headers[i].name) = Lower(name)
    THEN JoinValues(headers, name)
    ELSE Null

\* JavaScript values of a plain object's properties, by kind.
Falsy == {"undefined", "null", "false", "0", "NaN", "emptyString"}
OwnValues == {"undefined", "0", "emptyString", "string", "object"}
NotOwn == "<not own>"
PropNames == {"email", "toString"}
\* A plain object: its own properties; it inherits from Object.prototype.
Objects == [PropNames -> {NotOwn} \cup OwnValues]
ObjectPrototype(property) ==
  IF property = "toString" THEN "function" ELSE "undefined"
\* object[property]: the own property, else the inherited one, else undefined.
GetProperty(object, property) ==
  IF object[property] # NotOwn THEN object[property]
  ELSE ObjectPrototype(property)
TruthyValue(v) == v \notin Falsy

FixtureIdle ==
  UNCHANGED <<clearingFixture, file, updating, token, tokenErr, pc, updates,
              mswData, waitOn, result, err, ret, h, lim>>

\* Lines 74-85. The helper reads params and assigns nothing to it.
RequiredParam ==
  /\ \E params \in ParamLists, param \in ParamNames :
       req' = [fn |-> "requiredParam", key |-> param, params |-> params,
               after |-> params,
               threw |-> ~TruthyStr(ParamsGet(params, param))]
  /\ FixtureIdle

\* Lines 87-98.
RequiredHeader ==
  /\ \E headers \in HeaderLists, header \in HeaderNames :
       req' = [fn |-> "requiredHeader", key |-> header, headers |-> headers,
               after |-> headers,
               threw |-> ~TruthyStr(HeadersGet(headers, header))]
  /\ FixtureIdle

\* Lines 100-110.
RequiredProperty ==
  /\ \E object \in Objects, property \in PropNames :
       req' = [fn |-> "requiredProperty", key |-> property, object |-> object,
               after |-> object,
               threw |-> ~TruthyValue(GetProperty(object, property))]
  /\ FixtureIdle

NextRequired == RequiredParam \/ RequiredHeader \/ RequiredProperty
InitRequired == InitWith(0, 0, 0)
SpecRequired == InitRequired /\ [][NextRequired]_vars

\* updateFixture calls alone, with every I/O operation succeeding.
NextQueue ==
  \/ ClearingSettles
  \/ \E p \in Updaters : CallUpdate(p)
  \/ \E p \in Updaters : AwaitClearing(p)
  \/ \E p \in Updaters : ReadFile(p)
  \/ \E p \in Updaters : RecoverOpen(p)
  \/ \E p \in Updaters : RecoverWrite(p)
  \/ \E p \in Updaters : WriteOpen(p)
  \/ \E p \in Updaters : WriteData(p)
InitQueue == InitWith(QueueUpdaters, 0, 0)
SpecQueue == InitQueue /\ [][NextQueue]_vars

\* Two updateFixture calls, with every I/O operation succeeding. No read
\* fails there (TwoCallScenario states it), so the recovery of readFixture
\* has no step to take.
NextPair ==
  \/ ClearingSettles
  \/ \E p \in Updaters : CallUpdate(p)
  \/ \E p \in Updaters : AwaitClearing(p)
  \/ \E p \in Updaters : ReadFile(p)
  \/ \E p \in Updaters : WriteOpen(p)
  \/ \E p \in Updaters : WriteData(p)
InitPair == InitWith(PairUpdaters, 0, 0)
SpecPair == InitPair /\ [][NextPair]_vars

\* ----------------------------------------------------------------- claims
Called(p) == pc[p] # "idle"
Done(p) == pc[p] = "done"
AllSettled ==
  /\ \E p \in Updaters : Called(p)
  /\ \A p \in Updaters : Called(p) => Done(p)
NoPlainRead == \A r \in Readers : ~Called(r)
NoFault == h.ioFailures = 0
RECURSIVE ApplyAll(_)
\* The initial document with the patches of the callers in `order` merged in.
ApplyAll(order) ==
  IF order = <<>> THEN EmptyDoc
  ELSE LET n == Len(order) IN
       [k \in Keys |->
          IF updates[order[n]][k] # Absent THEN updates[order[n]][k]
          ELSE ApplyAll(SubSeq(order, 1, n - 1))[k]]
PatchA1 == [k \in Keys |-> IF k = "a" THEN 1 ELSE Absent]
PatchB2 == [k \in Keys |-> IF k = "b" THEN 2 ELSE Absent]

\* C1: at most one updateFixture call at a time is between the start of its
\* readFixture and the completion of its writeFile.
MutualExclusion == Cardinality({p \in Updaters : InCycle(p)}) <= 1

\* C2: with no I/O failure, once all calls have settled the file holds the
\* initial document with every patch merged in, in the order the cycles
\* started; every key of every patch is in it.
NoLostUpdates ==
  (AllSettled /\ NoFault /\ NoPlainRead) =>
     /\ file.valid
     /\ file.data = ApplyAll(h.order)
     /\ \A p \in Updaters : \A k \in Keys :
          (Called(p) /\ updates[p][k] # Absent) => file.data[k] # Absent

\* C3: when exactly two calls are made, p1 then p2, and no I/O operation
\* fails, no read of the file fails and, once both have settled, the file
\* holds the initial document merged with p1 and then with p2.
TwoCallScenario ==
  ((\A p \in Updaters : p > 2 => ~Called(p)) /\ NoFault /\ NoPlainRead) =>
     /\ \A p \in Updaters : pc[p] \notin {"recOpen", "recWrite"}
     /\ (Done(1) /\ Done(2)) =>
          /\ file.valid
          /\ file.data = ApplyAll(<<1, 2>>)
\* The second call found the slot taken by the first and both have settled,
\* with patches {a:1} and {b:2}.
TwoCallWitness ==
  /\ Done(1) /\ Done(2) /\ waitOn[2] = 1
  /\ updates[1] = PatchA1 /\ updates[2] = PatchB2
  /\ file.valid /\ file.data["a"] = 1 /\ file.data["b"] = 2
\* C4: a call whose own read or write failed rejects with that error, and
\* no other call rejects with it (stated for runs whose startup write of
\* the file succeeded).
ErrorToOwnerOnly ==
  \A p \in Updaters :
    (Done(p) /\ h.ownErr[p] # NoErr /\ clearingFixture = "fulfilled") =>
       /\ result[p] = "rejected" /\ err[p] = h.ownErr[p]
       /\ \A q \in Updaters \ {p} :
            ~(result[q] = "rejected" /\ err[q] = IOErr(p))

\* C5: a call whose own read and own write completed without I/O error
\* fulfils, whether it claimed the slot or waited first.
SuccessfulCycleFulfils ==
  \A p \in Updaters :
    (Done(p) /\ h.wrote[p] /\ h.ownErr[p] = NoErr) => result[p] = "fulfilled"

\* C6: after a cycle failed, a call whose own I/O does not fail never
\* settles without having written its patch (stated for runs whose startup
\* write of the file succeeded).
FailedCycleStopsNoOne ==
  ((\E q \in Updaters : h.ownErr[q] # NoErr) /\ clearingFixture = "fulfilled") =>
     \A p \in Updaters : (Done(p) /\ h.ownErr[p] = NoErr) => h.wrote[p]

\* C7: a caller that found the slot taken is not in its own cycle before
\* the write of the cycle that held the slot has completed.
WaiterStartsAfterOccupantWrote ==
  \A p \in Updaters :
    (InCycle(p) /\ waitOn[p] # 0) => h.wrote[waitOn[p]]

\* C8: a plain readFixture whose readFile or JSON.parse failed returns {},
\* leaves the file holding "{}" and does not reject.
ReadRecovers ==
  \A r \in Readers :
    (Done(r) /\ h.readFail[r]) =>
       /\ result[r] = "fulfilled"
       /\ ret[r] = EmptyDoc
       /\ h.retFile[r] = [valid |-> TRUE, data |-> EmptyDoc, len |-> 2]

\* C9: with no I/O failure, a plain readFixture returns a document the file
\* held in full at its call or that was written in full during it, and it
\* does not write the file.
NoPartialObservation ==
  \A r \in Readers :
    (Done(r) /\ NoFault) =>
       /\ result[r] = "fulfilled"
       /\ ret[r] \in h.window[r]
       /\ ~h.readerWrote[r]


\* What the last helper call inspected: whether the key is in the structure
\* (an own property, for an object), whether its value is truthy, and
\* whether the structure is as it was.
KeyPresent ==
  CASE req.fn = "requiredParam" ->
         \E i \in 1..Len(req.params) : req.params[i].name = req.key
    [] req.fn = "requiredHeader" ->
         \E i \in 1..Len(req.headers) : Lower(req.headers[i].name) = Lower(req.key)
    [] req.fn = "requiredProperty" -> req.object[req.key] # NotOwn
    [] OTHER -> FALSE
KeyTruthy ==
  CASE req.fn = "requiredParam" -> TruthyStr(ParamsGet(req.params, req.key))
    [] req.fn = "requiredHeader" -> TruthyStr(HeadersGet(req.headers, req.key))
    [] req.fn = "requiredProperty" -> TruthyValue(req.object[req.key])
    [] OTHER -> FALSE
Untouched ==
  CASE req.fn = "requiredParam" -> req.after = req.params
    [] req.fn = "requiredHeader" -> req.after = req.headers
    [] req.fn = "requiredProperty" -> req.after = req.object
    [] OTHER -> TRUE
\* C10: each helper raises when the key is absent from the structure or
\* its value is falsy, returns when the key is there with a truthy value,
\* and leaves the structure as it was.
RequiredRaisesIffMissing ==
  req.fn # "none" =>
     /\ (~KeyPresent \/ ~KeyTruthy) => req.threw
     /\ (KeyPresent /\ KeyTruthy) => ~req.threw
     /\ Untouched

\* C11: a call that is between the start of its read and the end of its
\* write holds the slot with the deferred it created itself (a caller that
\* waited has claimed the emptied slot first), and a deferred is settled only
\* at the end of the cycle of the call that created it.
TokenLifecycle ==
  /\ \A p \in Updaters : InCycle(p) => (updating = p /\ token[p] = "pending")
  /\ \A t \in Updaters : token[t] \in {"resolved", "rejected"} => Done(t)

====
